---- MODULE Spec2Model ----
(***************************************************************************)
(* Curriculum-aware statistics engine of DRONENAVIGATIONRL                 *)
(* (src/generate_curriculum_aware_statistics.py).                          *)
(*                                                                         *)
(* Numbers.  Stage values are reals stored in the CSV; they are modelled   *)
(* as integers counting tenths, so 9 is 0.9 and 16 is 1.6.                 *)
(* Metric values are integers; means are exact rationals <<num, den>> in   *)
(* lowest terms, and numpy's std (a square root) is carried as its square, *)
(* the population variance, which orders and compares the same way.        *)
(***************************************************************************)
EXTENDS Integers, Sequences, FiniteSets, TLC

VARIABLES
    fn,                 \* the function the behaviour exercises
    pc,                 \* its position: "start" or "done"
    stage_steps,        \* find_stage_transitions: argument stage_steps
    stage_values,       \* find_stage_transitions: argument stage_values (tenths)
    stage_ranges,       \* dict stage id -> <<start_step, end_step>>
    steps,              \* get_stage_performance: argument steps
    values,             \* get_stage_performance: argument values
    stage_window,       \* --stage_window
    stage_performance,  \* dict stage id -> performance record
    run_dirs,           \* analyze_curriculum_aware: the run directories
    results,            \* analyze_curriculum_aware: the returned dict
    analysis_path,      \* which return of analyze_curriculum_aware was taken
    report,             \* main: what generate_curriculum_summary wrote
    boot_data,          \* bootstrap_ci: argument data
    n_bootstrap,        \* bootstrap_ci: argument n_bootstrap
    confidence,         \* bootstrap_ci: argument confidence, in percent
    bootstrap_means,    \* bootstrap_ci: the list bootstrap_means
    bounds,             \* bootstrap_ci: the returned (lower, upper)
    previous_bounds,    \* what the previous call with these arguments returned
    calls,              \* number of calls of bootstrap_ci made
    fmt_value,          \* format_value: argument value
    format_type,        \* format_value: argument format_type
    formatted,          \* format_value: the returned text
    summary_window,     \* analyze_runs: argument final_window
    summary_results     \* analyze_runs: the returned dict

vars == <<fn, pc, stage_steps, stage_values, stage_ranges, steps, values,
          stage_window, stage_performance, run_dirs, results, analysis_path,
          report, boot_data, n_bootstrap, confidence, bootstrap_means, bounds,
          previous_bounds, calls, fmt_value, format_type, formatted,
          summary_window, summary_results>>

segVars == <<stage_steps, stage_values>>
perfVars == <<steps, values, stage_performance>>
analysisVars == <<run_dirs, results, analysis_path>>
mainVars == <<report>>
bootVars == <<boot_data, n_bootstrap, confidence, bootstrap_means, bounds,
             previous_bounds, calls>>
formatVars == <<fmt_value, format_type, formatted>>
summaryVars == <<summary_window, summary_results>>
\* what a call of bootstrap_ci leaves alone
otherVars == <<fn, segVars, perfVars, stage_ranges, stage_window, analysisVars,
               mainVars, formatVars, summaryVars>>

----------------------------------------------------------------------------
(* Bounds of the model *)

MaxLen == 4             \* longest stage signal drawn
MaxStep == 3            \* largest step value drawn
MaxSeriesLen == 3       \* longest metric series drawn
MaxMetricStep == 2      \* largest step of a metric series and of a drawn interval
MaxWindow == 2          \* largest --stage_window drawn
MaxRuns == 2            \* most run directories drawn
MaxData == 2            \* longest data list given to bootstrap_ci
MaxBootstrap == 2       \* largest n_bootstrap drawn
MaxCalls == 2           \* calls of bootstrap_ci with the same arguments
MaxSixteenths == 20     \* largest value drawn for format_value, in sixteenths

\* stored stage values: 0.0, 0.9, 1.0, 1.6, 2.0
StageVals == {0, 9, 10, 16, 20}

StepVals == 0 .. MaxStep

\* metric values
MetricVals == {1, 4}

MetricStepVals == 0 .. MaxMetricStep

\* stage ids of the drawn interval dicts
StageIds == {0, 1}

----------------------------------------------------------------------------
(* Python helpers *)

Min(a, b) == IF a <= b THEN a ELSE b
Max(a, b) == IF a >= b THEN a ELSE b

\* the empty dict {}
EmptyDict == [k \in {} |-> 0]

\* mutant of DictPut: an id already in the dict keeps its first interval
DictPutKeepFirst(d, k, v) ==
    [x \in (DOMAIN d) \cup {k} |-> IF x \in DOMAIN d THEN d[x] ELSE v]

\* d[k] = v on a dict
DictPut(d, k, v) == [x \in (DOMAIN d) \cup {k} |-> IF x = k THEN v ELSE d[x]]

\* int(x): truncation toward zero of a real given in tenths
PyInt(v) == IF v >= 0 THEN v \div 10 ELSE -((-v) \div 10)

\* rounding to the nearest integer of a real given in tenths (non-negative)
round_to_int(v) == (v + 5) \div 10

\* seq[start:] with Python's treatment of a negative or oversized start
PySliceFrom(seq, start) ==
    LET n == Len(seq)
        lo == IF start < 0 THEN Max(n + start, 0) ELSE Min(start, n)
    IN  [i \in 1 .. n - lo |-> seq[lo + i]]

RECURSIVE Gcd(_, _)
Gcd(a, b) == IF b = 0 THEN a ELSE Gcd(b, a % b)

Abs(a) == IF a < 0 THEN -a ELSE a

\* the rational n/d (d > 0) in lowest terms
Rat(n, d) == LET g == Gcd(Abs(n), d) IN <<n \div g, d \div g>>

RECURSIVE SumSeq(_)
SumSeq(s) == IF s = <<>> THEN 0 ELSE s[1] + SumSeq(Tail(s))

RECURSIVE SumSqSeq(_)
SumSqSeq(s) == IF s = <<>> THEN 0 ELSE s[1] * s[1] + SumSqSeq(Tail(s))

\* np.mean of a non-empty list of integers
NpMean(s) == Rat(SumSeq(s), Len(s))

\* np.std of a non-empty list of integers, squared: the population variance
NpStdSq(s) == Rat(Len(s) * SumSqSeq(s) - SumSeq(s) * SumSeq(s), Len(s) * Len(s))

NpMin(s) == CHOOSE x \in {s[i] : i \in 1 .. Len(s)} : \A j \in 1 .. Len(s) : x <= s[j]
NpMax(s) == CHOOSE x \in {s[i] : i \in 1 .. Len(s)} : \A j \in 1 .. Len(s) : x >= s[j]

\* rational arithmetic on pairs <<num, den>> with den > 0
RatAdd(a, b) == Rat(a[1] * b[2] + b[1] * a[2], a[2] * b[2])
RatSub(a, b) == Rat(a[1] * b[2] - b[1] * a[2], a[2] * b[2])
RatMul(a, b) == Rat(a[1] * b[1], a[2] * b[2])
RatDivInt(a, n) == Rat(a[1], a[2] * n)

\* the integer nearest to the non-negative rational q, ties to even
RoundHalfEven(q) ==
    LET whole == q[1] \div q[2]
        rest == q[1] % q[2]
    IN  IF 2 * rest < q[2] THEN whole
        ELSE IF 2 * rest > q[2] THEN whole + 1
        ELSE IF whole % 2 = 0 THEN whole ELSE whole + 1

\* a list of integers as a list of floats
Floats(s) == [i \in 1 .. Len(s) |-> <<s[i], 1>>]

RECURSIVE SumRats(_)
SumRats(s) == IF s = <<>> THEN <<0, 1>> ELSE RatAdd(s[1], SumRats(Tail(s)))

RECURSIVE SumSqRats(_)
SumSqRats(s) ==
    IF s = <<>> THEN <<0, 1>> ELSE RatAdd(RatMul(s[1], s[1]), SumSqRats(Tail(s)))

\* np.mean of a non-empty list of floats
NpMeanF(s) == RatDivInt(SumRats(s), Len(s))

\* np.std of a non-empty list of floats, squared: the population variance,
\* the mean of the squares less the square of the mean
NpStdSqF(s) == RatSub(RatDivInt(SumSqRats(s), Len(s)), RatMul(NpMeanF(s), NpMeanF(s)))

NonDecreasing(s) == \A i \in 1 .. Len(s) - 1 : s[i] <= s[i + 1]

\* all sequences over S of length exactly n
SeqsOfLen(S, n) == [1 .. n -> S]

----------------------------------------------------------------------------
(* find_stage_transitions *)

\* the for loop over enumerate(zip(stage_steps, stage_values)), from index i
\* (1-based), carrying stage_ranges, current_stage and stage_start
RECURSIVE ScanStages(_, _, _, _, _, _)
ScanStages(ss, sv, i, ranges, current_stage, stage_start) ==
    IF i > Min(Len(ss), Len(sv))
    THEN [ranges |-> ranges, current_stage |-> current_stage,
          stage_start |-> stage_start]
    ELSE LET stage_num == PyInt(sv[i]) IN
         IF stage_num # current_stage
         THEN ScanStages(ss, sv, i + 1,
                         DictPut(ranges, current_stage,
                                 <<stage_start, IF i > 1 THEN ss[i - 1] ELSE ss[i]>>),
                         stage_num, ss[i])
         ELSE ScanStages(ss, sv, i + 1, ranges, current_stage, stage_start)

\* mutant of find_stage_transitions: the stage still open when the scan ends
\* is not saved
find_stage_transitions_NoLastSave(ss, sv) ==
    IF ss = <<>> \/ sv = <<>>
    THEN EmptyDict
    ELSE ScanStages(ss, sv, 1, EmptyDict, PyInt(sv[1]), ss[1]).ranges

\* mutant of find_stage_transitions: the stage still open when the scan ends
\* is closed at the first step of the signal
find_stage_transitions_EndAtFirst(ss, sv) ==
    IF ss = <<>> \/ sv = <<>>
    THEN EmptyDict
    ELSE LET r == ScanStages(ss, sv, 1, EmptyDict, PyInt(sv[1]), ss[1]) IN
         DictPut(r.ranges, r.current_stage, <<r.stage_start, ss[1]>>)

find_stage_transitions(ss, sv) ==
    IF ss = <<>> \/ sv = <<>>
    THEN EmptyDict
    ELSE LET r == ScanStages(ss, sv, 1, EmptyDict, PyInt(sv[1]), ss[1]) IN
         DictPut(r.ranges, r.current_stage, <<r.stage_start, ss[Len(ss)]>>)

----------------------------------------------------------------------------
(* Segmenter specification: the stage signal is drawn, then segmented *)

\* the step column of a series of n rows: non-decreasing
StepColumns(S, n) == {c \in SeqsOfLen(S, n) : NonDecreasing(c)}

\* the variables a behaviour does not use
NoSegment == stage_steps = <<>> /\ stage_values = <<>>
NoPerf == steps = <<>> /\ values = <<>> /\ stage_performance = EmptyDict
NoAnalysis == run_dirs = <<>> /\ results = EmptyDict /\ analysis_path = "none"

\* no report: generate_curriculum_summary was not called
NoReport ==
    [outcome |-> "none", is_curriculum_aware |-> FALSE, label |-> "none",
     stage_tables |-> <<>>, final_rows |-> <<>>, rows |-> <<>>,
     latex_rows |-> <<>>]

NoMain == report = NoReport
NoBootstrap ==
    /\ boot_data = <<>> /\ n_bootstrap = 0 /\ confidence = 0
    /\ bootstrap_means = <<>> /\ bounds = <<>> /\ previous_bounds = <<>>
    /\ calls = 0
NoFormat ==
    /\ fmt_value = <<0, 1>> /\ format_type = "none"
    /\ formatted = [minus |-> FALSE, scaled |-> 0, decimals |-> 0, suffix |-> "none"]
NoSummary == summary_window = 0 /\ summary_results = EmptyDict

InitSegment ==
    /\ fn = "find_stage_transitions"
    /\ pc = "start"
    /\ \E n \in 0 .. MaxLen :
          \E ss \in StepColumns(StepVals, n), sv \in SeqsOfLen(StageVals, n) :
              \* two aligned columns, or one column empty
              \/ stage_steps = ss /\ stage_values = sv
              \/ stage_steps = ss /\ stage_values = <<>>
              \/ stage_steps = <<>> /\ stage_values = sv
    /\ stage_ranges = EmptyDict
    /\ stage_window = 0
    /\ NoPerf
    /\ NoAnalysis
    /\ NoMain
    /\ NoBootstrap
    /\ NoFormat
    /\ NoSummary

Segment ==
    /\ fn = "find_stage_transitions"
    /\ pc = "start"
    /\ stage_ranges' = find_stage_transitions(stage_steps, stage_values)
    /\ pc' = "done"
    /\ UNCHANGED <<fn, segVars, perfVars, stage_window, analysisVars, mainVars, bootVars, formatVars, summaryVars>>

NextSegment == Segment

SpecSegment == InitSegment /\ [][NextSegment]_vars

----------------------------------------------------------------------------
(* get_stage_performance *)

\* mutant of InStageValues: the end step of the interval is excluded
RECURSIVE InStageValues_EndExcluded(_, _, _, _)
InStageValues_EndExcluded(st, vs, iv, i) ==
    IF i > Min(Len(st), Len(vs))
    THEN <<>>
    ELSE (IF iv[1] <= st[i] /\ st[i] < iv[2] THEN <<vs[i]>> ELSE <<>>)
             \o InStageValues_EndExcluded(st, vs, iv, i + 1)

\* the inner loop: the values of the samples with start_step <= step <= end_step,
\* in series order, from index i of zip(steps, values)
RECURSIVE InStageValues(_, _, _, _)
InStageValues(st, vs, iv, i) ==
    IF i > Min(Len(st), Len(vs))
    THEN <<>>
    ELSE (IF iv[1] <= st[i] /\ st[i] <= iv[2] THEN <<vs[i]>> ELSE <<>>)
             \o InStageValues(st, vs, iv, i + 1)

\* final_values: the last stage_window values of a longer list, else the list
FinalValues(in_stage, window) ==
    IF Len(in_stage) > window THEN PySliceFrom(in_stage, -window) ELSE in_stage

\* the dict entry written for a stage
PerfEntry(in_stage, final_values, iv) ==
    [mean |-> NpMean(final_values),
     std |-> NpStdSq(final_values),
     min |-> NpMin(final_values),
     max |-> NpMax(final_values),
     n_steps |-> Len(in_stage),
     step_range |-> iv]

get_stage_performance(st, vs, ranges, window) ==
    LET in_stage(k) == InStageValues(st, vs, ranges[k], 1)
        kept == {k \in DOMAIN ranges :
                    /\ in_stage(k) # <<>>
                    /\ FinalValues(in_stage(k), window) # <<>>}
    IN  [k \in kept |->
            PerfEntry(in_stage(k), FinalValues(in_stage(k), window), ranges[k])]

----------------------------------------------------------------------------
(* Aggregator specification: a metric series, a dict of stage intervals and
   a window are drawn, then aggregated *)

Intervals == {iv \in MetricStepVals \X MetricStepVals : iv[1] <= iv[2]}

IntervalDicts == UNION {[ids -> Intervals] : ids \in SUBSET StageIds}

InitPerf ==
    /\ fn = "get_stage_performance"
    /\ pc = "start"
    /\ NoSegment
    /\ stage_ranges \in IntervalDicts
    /\ \E n \in 0 .. MaxSeriesLen :
          \E st \in StepColumns(MetricStepVals, n), vs \in SeqsOfLen(MetricVals, n) :
              steps = st /\ values = vs
    /\ stage_window \in 0 .. MaxWindow
    /\ stage_performance = EmptyDict
    /\ NoAnalysis
    /\ NoMain
    /\ NoBootstrap
    /\ NoFormat
    /\ NoSummary

Aggregate ==
    /\ fn = "get_stage_performance"
    /\ pc = "start"
    /\ stage_performance' =
            get_stage_performance(steps, values, stage_ranges, stage_window)
    /\ pc' = "done"
    /\ UNCHANGED <<fn, segVars, stage_ranges, steps, values, stage_window,
                   analysisVars, mainVars, bootVars, formatVars, summaryVars>>

NextPerf == Aggregate

SpecPerf == InitPerf /\ [][NextPerf]_vars

----------------------------------------------------------------------------
(* bootstrap_ci, as the analysis uses it: fewer than 2 values give the pair
   (0.0, 0.0) without a draw; otherwise the bounds are percentiles of the means
   of resamples of `data`, carried here as the data that is resampled *)

bootstrap_ci(data) ==
    IF Len(data) < 2
    THEN [drawn |-> FALSE, data |-> <<>>]
    ELSE [drawn |-> TRUE, data |-> data]

\* the literal (0.0, 0.0) assigned without calling bootstrap_ci
ZeroCI == [drawn |-> FALSE, data |-> <<>>]

----------------------------------------------------------------------------
(* Run directories and CSV files *)

\* a CSV file of a run directory: missing, or its step and value columns
\* (both empty when the file has no rows or cannot be read)
NoFile == [exists |-> FALSE, steps |-> <<>>, values |-> <<>>]
CsvFile(st, vs) == [exists |-> TRUE, steps |-> st, values |-> vs]

\* load_csv_data: the two columns, or ([], []) when reading fails
load_csv_data(file) ==
    IF file.exists THEN <<file.steps, file.values>> ELSE <<<<>>, <<>>>>

\* the metrics dict of analyze_curriculum_aware, in insertion order
metrics ==
    << [key |-> "Drone__Success", name |-> "Success Rate", format |-> "percentage"],
       [key |-> "Drone__Collisions", name |-> "Collision Rate", format |-> "percentage"],
       [key |-> "Environment__Cumulative_Reward", name |-> "Cumulative Reward",
        format |-> "float"],
       [key |-> "Drone__EpisodeLength", name |-> "Episode Length", format |-> "float"],
       [key |-> "Drone__MinDistance", name |-> "Min Distance to Goal",
        format |-> "float"] >>

MetricKeys == {metrics[i].key : i \in 1 .. Len(metrics)}

----------------------------------------------------------------------------
(* analyze_final_performance_only *)

\* the values one run adds to all_final_values
FinalVals(file, final_window) ==
    LET vs == load_csv_data(file)[2] IN
    IF file.exists /\ vs # <<>>
    THEN (IF Len(vs) >= final_window THEN PySliceFrom(vs, -final_window) ELSE vs)
    ELSE <<>>

RECURSIVE AllFinalValues(_, _, _, _)
AllFinalValues(dirs, key, final_window, i) ==
    IF i > Len(dirs)
    THEN <<>>
    ELSE FinalVals(dirs[i].metric[key], final_window)
             \o AllFinalValues(dirs, key, final_window, i + 1)

analyze_final_performance_only(dirs, final_window, mets) ==
    LET all == [m \in 1 .. Len(mets) |->
                    AllFinalValues(dirs, mets[m].key, final_window, 1)]
        kept == {m \in 1 .. Len(mets) : all[m] # <<>>}
        entry == [m \in kept |->
                    [mean |-> NpMean(all[m]),
                     std |-> NpStdSq(all[m]),
                     ci |-> bootstrap_ci(Floats(all[m])),
                     format |-> mets[m].format,
                     n_runs |-> Len(dirs)]]
    IN  [name \in {mets[m].name : m \in kept} |->
            entry[CHOOSE m \in kept : mets[m].name = name]]

----------------------------------------------------------------------------
(* analyze_curriculum_aware *)

\* mutant of AllStageRanges: a stage file that exists is segmented whether or
\* not it has rows
RECURSIVE AllStageRanges_NoRowCheck(_, _)
AllStageRanges_NoRowCheck(dirs, i) ==
    IF i > Len(dirs)
    THEN <<>>
    ELSE LET loaded == load_csv_data(dirs[i].stage) IN
         IF dirs[i].stage.exists
         THEN <<find_stage_transitions(loaded[1], loaded[2])>>
         ELSE AllStageRanges_NoRowCheck(dirs, i + 1)

\* mutant of AllStageRanges: the stage dict is that of the last run with a
\* stage signal
RECURSIVE AllStageRanges_LastRun(_, _)
AllStageRanges_LastRun(dirs, i) ==
    IF i > Len(dirs)
    THEN <<>>
    ELSE LET loaded == load_csv_data(dirs[i].stage)
             later == AllStageRanges_LastRun(dirs, i + 1)
         IN  IF later # <<>>
             THEN later
             ELSE IF dirs[i].stage.exists /\ loaded[1] # <<>> /\ loaded[2] # <<>>
                  THEN <<find_stage_transitions(loaded[1], loaded[2])>>
                  ELSE <<>>

\* the first loop: all_stage_ranges, which holds the stage dict of the first
\* run whose stage file exists and loads non-empty columns (then break)
RECURSIVE AllStageRanges(_, _)
AllStageRanges(dirs, i) ==
    IF i > Len(dirs)
    THEN <<>>
    ELSE LET loaded == load_csv_data(dirs[i].stage) IN
         IF dirs[i].stage.exists /\ loaded[1] # <<>> /\ loaded[2] # <<>>
         THEN <<find_stage_transitions(loaded[1], loaded[2])>>
         ELSE AllStageRanges(dirs, i + 1)

\* the loop over run_dirs for one metric: stage_performances, the dict
\* stage -> list of per-run means, in run order
RECURSIVE StagePerformances(_, _, _, _, _)
StagePerformances(dirs, key, ranges, window, i) ==
    IF i = 0
    THEN EmptyDict
    ELSE LET before == StagePerformances(dirs, key, ranges, window, i - 1)
             file == dirs[i].metric[key]
             loaded == load_csv_data(file)
             perf == IF file.exists /\ loaded[1] # <<>> /\ loaded[2] # <<>>
                     THEN get_stage_performance(loaded[1], loaded[2], ranges, window)
                     ELSE EmptyDict
         IN  [k \in (DOMAIN before) \cup (DOMAIN perf) |->
                (IF k \in DOMAIN before THEN before[k] ELSE <<>>)
                    \o (IF k \in DOMAIN perf THEN <<perf[k].mean>> ELSE <<>>)]

\* the else branch of the CI computation: one contributing run
SingleRunCI(dirs, key, ranges, window, stage_num) ==
    LET loaded == load_csv_data(dirs[1].metric[key])
        st == loaded[1]
        vs == loaded[2]
    IN  IF st # <<>> /\ vs # <<>>
        THEN IF stage_num \in DOMAIN get_stage_performance(st, vs, ranges, window)
             THEN LET stage_vals == InStageValues(st, vs, ranges[stage_num], 1) IN
                  bootstrap_ci(Floats(IF Len(stage_vals) > window
                                      THEN PySliceFrom(stage_vals, -window)
                                      ELSE stage_vals))
             ELSE ZeroCI
        ELSE ZeroCI

\* mutant of CombinedResult: the std is the sample standard deviation (n - 1)
CombinedResult_SampleStd(dirs, met, ranges, window, stage_num, stage_means) ==
    [mean |-> NpMeanF(stage_means),
     std |-> IF Len(stage_means) > 1
             THEN RatDivInt(RatMul(<<Len(stage_means), 1>>, NpStdSqF(stage_means)),
                            Len(stage_means) - 1)
             ELSE <<0, 1>>,
     ci |-> IF Len(stage_means) > 1
            THEN bootstrap_ci(stage_means)
            ELSE SingleRunCI(dirs, met.key, ranges, window, stage_num),
     format |-> met.format,
     n_runs |-> Len(stage_means),
     step_range |-> ranges[stage_num]]

\* mutant of CombinedResult: the entry stored for a stage is an aggregate of
\* the fallback shape, without the step range of the stage
CombinedResult_Aggregate(dirs, met, ranges, window, stage_num, stage_means) ==
    [mean |-> NpMeanF(stage_means),
     std |-> IF Len(stage_means) > 1 THEN NpStdSqF(stage_means) ELSE <<0, 1>>,
     ci |-> bootstrap_ci(stage_means),
     format |-> met.format,
     n_runs |-> Len(dirs)]

\* mutant of CombinedResult: the step range reported ends one step late
CombinedResult_WidenedRange(dirs, met, ranges, window, stage_num, stage_means) ==
    [mean |-> NpMeanF(stage_means),
     std |-> IF Len(stage_means) > 1 THEN NpStdSqF(stage_means) ELSE <<0, 1>>,
     ci |-> IF Len(stage_means) > 1
            THEN bootstrap_ci(stage_means)
            ELSE SingleRunCI(dirs, met.key, ranges, window, stage_num),
     format |-> met.format,
     n_runs |-> Len(stage_means),
     step_range |-> <<ranges[stage_num][1], ranges[stage_num][2] + 1>>]

\* mutant of CombinedResult: the mean is that of the first contributing run
CombinedResult_FirstRunMean(dirs, met, ranges, window, stage_num, stage_means) ==
    [mean |-> stage_means[1],
     std |-> IF Len(stage_means) > 1 THEN NpStdSqF(stage_means) ELSE <<0, 1>>,
     ci |-> IF Len(stage_means) > 1
            THEN bootstrap_ci(stage_means)
            ELSE SingleRunCI(dirs, met.key, ranges, window, stage_num),
     format |-> met.format,
     n_runs |-> Len(stage_means),
     step_range |-> ranges[stage_num]]

\* results[metric_name][stage_num] for the list of per-run means of a stage
CombinedResult(dirs, met, ranges, window, stage_num, stage_means) ==
    [mean |-> NpMeanF(stage_means),
     std |-> IF Len(stage_means) > 1 THEN NpStdSqF(stage_means) ELSE <<0, 1>>,
     ci |-> IF Len(stage_means) > 1
            THEN bootstrap_ci(stage_means)
            ELSE SingleRunCI(dirs, met.key, ranges, window, stage_num),
     format |-> met.format,
     n_runs |-> Len(stage_means),
     step_range |-> ranges[stage_num]]

\* the stage-aware part: one entry per metric, a dict stage -> combined result
StageAwareResults(dirs, ranges, window, mets) ==
    LET entry == [m \in 1 .. Len(mets) |->
                    LET sp == StagePerformances(dirs, mets[m].key, ranges, window,
                                                Len(dirs))
                    IN  [k \in DOMAIN sp |->
                            CombinedResult(dirs, mets[m], ranges, window, k, sp[k])]]
    IN  [name \in {mets[m].name : m \in 1 .. Len(mets)} |->
            entry[CHOOSE m \in 1 .. Len(mets) : mets[m].name = name]]

analyze_curriculum_aware(dirs, window) ==
    LET all_stage_ranges == AllStageRanges(dirs, 1) IN
    IF all_stage_ranges = <<>>
    THEN [path |-> "fallback",
          stage_ranges |-> EmptyDict,
          results |-> analyze_final_performance_only(dirs, window, metrics)]
    ELSE [path |-> "stage_aware",
          stage_ranges |-> all_stage_ranges[1],
          results |-> StageAwareResults(dirs, all_stage_ranges[1], window, metrics)]

----------------------------------------------------------------------------
(* Analysis specification: the run directories and the window are drawn,
   then analysed *)

\* the Stage__Current.csv of a run: missing, without rows, a signal whose
\* steps leave a gap at the transition, one with a duplicate step at the
\* transition, a constant one and one that returns to stage 0
StageFiles ==
    {NoFile,
     CsvFile(<<>>, <<>>),
     CsvFile(<<0, 2>>, <<0, 10>>),
     CsvFile(<<0, 1, 1>>, <<0, 0, 10>>),
     CsvFile(<<0, 1, 2>>, <<10, 10, 10>>),
     CsvFile(<<0, 1, 2>>, <<0, 10, 9>>)}

\* the Drone__Success.csv of a run
SuccessFiles ==
    {NoFile,
     CsvFile(<<>>, <<>>),
     CsvFile(<<0>>, <<1>>),
     CsvFile(<<0, 2>>, <<4, 1>>),
     CsvFile(<<0, 1, 2>>, <<1, 1, 4>>)}

\* the Environment__Cumulative_Reward.csv, which only the last run wrote
RewardFile == CsvFile(<<0, 2>>, <<1, 4>>)

RunDir(stage, success, reward) ==
    [stage |-> stage,
     metric |-> [key \in MetricKeys |->
                    IF key = "Drone__Success" THEN success
                    ELSE IF key = "Environment__Cumulative_Reward" THEN reward
                    ELSE NoFile]]

\* the run directories given by a choice of stage and success file per run
RunDirList(pick) ==
    [i \in 1 .. Len(pick) |->
        RunDir(pick[i][1], pick[i][2], IF i = Len(pick) THEN RewardFile ELSE NoFile)]

InitAnalysis ==
    /\ fn = "analyze_curriculum_aware"
    /\ pc = "start"
    /\ NoSegment
    /\ NoPerf
    /\ stage_ranges = EmptyDict
    /\ \E n \in 1 .. MaxRuns :
          \E pick \in [1 .. n -> StageFiles \X SuccessFiles] :
              run_dirs = RunDirList(pick)
    /\ stage_window \in 0 .. MaxWindow
    /\ results = EmptyDict
    /\ analysis_path = "none"
    /\ NoMain
    /\ NoBootstrap
    /\ NoFormat
    /\ NoSummary

Analyze ==
    /\ fn = "analyze_curriculum_aware"
    /\ pc = "start"
    /\ LET r == analyze_curriculum_aware(run_dirs, stage_window) IN
        /\ analysis_path' = r.path
        /\ stage_ranges' = r.stage_ranges
        /\ results' = r.results
    /\ pc' = "done"
    /\ UNCHANGED <<fn, segVars, perfVars, stage_window, run_dirs, mainVars, bootVars, formatVars, summaryVars>>

NextAnalysis == Analyze

SpecAnalysis == InitAnalysis /\ [][NextAnalysis]_vars

----------------------------------------------------------------------------
(* generate_curriculum_summary *)

\* sorted(keys) of a set of stage ids
RECURSIVE SortedKeys(_)
SortedKeys(S) ==
    IF S = {}
    THEN <<>>
    ELSE LET least == CHOOSE x \in S : \A y \in S : x <= y
         IN  <<least>> \o SortedKeys(S \ {least})

\* results.items(): the metric names of the dict in insertion order, which is
\* the order of `metrics` in both analyses
ResultNames(res) ==
    SelectSeq([m \in 1 .. Len(metrics) |-> metrics[m].name],
              LAMBDA name : name \in DOMAIN res)

\* the table "STAGE k": one row per metric that has an entry for stage k
StageTable(res, k) ==
    LET having == SelectSeq(ResultNames(res), LAMBDA name : k \in DOMAIN res[name])
    IN  [stage |-> k,
         rows |-> [j \in 1 .. Len(having) |->
                      [metric |-> having[j], data |-> res[having[j]][k]]]]

\* max(metric_data.keys())
HighestStage(metric_data) ==
    CHOOSE k \in DOMAIN metric_data : \A j \in DOMAIN metric_data : j <= k

\* "Find which stage this data came from": the first stage, in the insertion
\* order of metric_data (ascending stage id), whose entry equals `data`
PrintedStage(metric_data, data) ==
    LET order == SortedKeys(DOMAIN metric_data)
        first == CHOOSE i \in 1 .. Len(order) :
                    /\ metric_data[order[i]] = data
                    /\ \A j \in 1 .. i - 1 : metric_data[order[j]] # data
    IN  order[first]

\* the rows of "FINAL PERFORMANCE SUMMARY (Highest Stage Achieved)"
FinalSummaryRows(res) ==
    LET having == SelectSeq(ResultNames(res), LAMBDA name : res[name] # EmptyDict)
    IN  [j \in 1 .. Len(having) |->
            LET data == res[having[j]][HighestStage(res[having[j]])]
            IN  [metric |-> having[j],
                 data |-> data,
                 stage |-> PrintedStage(res[having[j]], data)]]

\* the rows of the LaTeX table in curriculum-aware mode
LatexRows(res) ==
    LET having == SelectSeq(ResultNames(res), LAMBDA name : res[name] # EmptyDict)
    IN  [j \in 1 .. Len(having) |->
            [metric |-> having[j],
             data |-> res[having[j]][HighestStage(res[having[j]])],
             stage |-> HighestStage(res[having[j]])]]

\* the rows of the table without stages, text and LaTeX
AggregateRows(res) ==
    [j \in 1 .. Len(ResultNames(res)) |->
        [metric |-> ResultNames(res)[j], data |-> res[ResultNames(res)[j]]]]

\* What generate_curriculum_summary writes.  `stage_keyed` is the Python type
\* of the entries of `results`: dicts stage id -> combined result (TRUE), or
\* the aggregate dicts of analyze_final_performance_only (FALSE), whose keys
\* are the field names 'mean', 'std', 'ci_lower', 'ci_upper', 'format',
\* 'n_runs'.  `results` is not empty (main returns before the call if it is).
\*   - is_curriculum_aware on aggregate dicts: all_stages is the set of
\*     field names, the first table written is "STAGE ci_lower", and for
\*     the first metric `data = metric_data['ci_lower']` is a float, so
\*     data['mean'] raises before a row is written.
\*   - not is_curriculum_aware on stage-keyed dicts: for the first metric
\*     `data` is the dict stage id -> result (or {}), so data['mean'] raises
\*     a KeyError before a row is written.
generate_curriculum_summary(res, is_curriculum_aware, stage_keyed) ==
    IF is_curriculum_aware
    THEN IF stage_keyed
         THEN LET all_stages == UNION {DOMAIN res[name] : name \in DOMAIN res}
                  order == SortedKeys(all_stages)
              IN  [outcome |-> "written",
                   is_curriculum_aware |-> TRUE,
                   label |-> "per_stage",
                   stage_tables |-> [j \in 1 .. Len(order) |-> StageTable(res, order[j])],
                   final_rows |-> FinalSummaryRows(res),
                   rows |-> <<>>,
                   latex_rows |-> LatexRows(res)]
         ELSE [outcome |-> "raised",
               is_curriculum_aware |-> TRUE,
               label |-> "per_stage",
               stage_tables |-> <<[stage |-> "ci_lower", rows |-> <<>>]>>,
               final_rows |-> <<>>,
               rows |-> <<>>,
               latex_rows |-> <<>>]
    ELSE IF stage_keyed
         THEN [outcome |-> "raised",
               is_curriculum_aware |-> FALSE,
               label |-> "final_only",
               stage_tables |-> <<>>,
               final_rows |-> <<>>,
               rows |-> <<>>,
               latex_rows |-> <<>>]
         ELSE [outcome |-> "written",
               is_curriculum_aware |-> FALSE,
               label |-> "final_only",
               stage_tables |-> <<>>,
               final_rows |-> <<>>,
               rows |-> AggregateRows(res),
               latex_rows |-> AggregateRows(res)]

----------------------------------------------------------------------------
(* main: the run directories of the command line and --stage_window are
   drawn, then the analysis runs and the summary is written *)

\* glob("*.csv") finds a file in the run directory
HasCsvFiles(dir) ==
    dir.stage.exists \/ \E key \in MetricKeys : dir.metric[key].exists

\* the Stage__Current.csv of a run given to main: missing, a two-stage
\* signal, a constant one, and one whose step repeats at the transition
MainStageFiles ==
    {NoFile,
     CsvFile(<<0, 2>>, <<0, 10>>),
     CsvFile(<<0, 1, 2>>, <<10, 10, 10>>),
     CsvFile(<<0, 0>>, <<0, 10>>)}

\* the run directories given by a choice of stage and success file per run
\* and of the reward file of the last run
MainRunDirList(pick, reward) ==
    [i \in 1 .. Len(pick) |->
        RunDir(pick[i][1], pick[i][2], IF i = Len(pick) THEN reward ELSE NoFile)]

\* is_curriculum_aware = any(isinstance(data, dict) and len(data) > 1 ...);
\* every entry of both analyses is a dict
IsCurriculumAware(res) ==
    \E name \in DOMAIN res : Cardinality(DOMAIN res[name]) > 1

InitMain ==
    /\ fn = "main"
    /\ pc = "start"
    /\ NoSegment
    /\ NoPerf
    /\ stage_ranges = EmptyDict
    /\ \E n \in 1 .. MaxRuns :
          \E pick \in [1 .. n -> MainStageFiles \X SuccessFiles] :
              \E reward \in {NoFile, RewardFile} :
                  run_dirs = MainRunDirList(pick, reward)
    /\ stage_window \in 0 .. MaxWindow
    /\ results = EmptyDict
    /\ analysis_path = "none"
    /\ NoMain
    /\ NoBootstrap
    /\ NoFormat
    /\ NoSummary

Main ==
    /\ fn = "main"
    /\ pc = "start"
    /\ LET valid_dirs == SelectSeq(run_dirs, HasCsvFiles) IN
       IF valid_dirs = <<>>
       THEN /\ report' = [NoReport EXCEPT !.outcome = "no_valid_dirs"]
            /\ UNCHANGED <<analysis_path, stage_ranges, results>>
       ELSE LET r == analyze_curriculum_aware(valid_dirs, stage_window) IN
            /\ analysis_path' = r.path
            /\ stage_ranges' = r.stage_ranges
            /\ results' = r.results
            /\ report' =
                  IF r.results = EmptyDict
                  THEN [NoReport EXCEPT !.outcome = "no_metrics"]
                  ELSE generate_curriculum_summary(r.results,
                                                   IsCurriculumAware(r.results),
                                                   r.path = "stage_aware")
    /\ pc' = "done"
    /\ UNCHANGED <<fn, segVars, perfVars, stage_window, run_dirs, bootVars, formatVars, summaryVars>>

NextMain == Main

SpecMain == InitMain /\ [][NextMain]_vars

----------------------------------------------------------------------------
(* bootstrap_ci, one call at a time: the early return, the resampling loop
   and the percentiles.  `confidence` is carried in percent (95 is 0.95).
   np.random is the unseeded global generator: each np.random.choice may
   return any resample of len(data) elements of data. *)

\* confidence levels drawn, in percent
ConfidenceVals == {50, 90, 95}

\* mutant of TooFewValues: only the empty list returns early
TooFewValues_OnlyEmpty(d) == Len(d) < 1

\* `len(data) < 2`
TooFewValues(d) == Len(d) < 2

\* the literal (0.0, 0.0)
ZeroBounds == << <<0, 1>>, <<0, 1>> >>

\* no bounds: the call has not returned
NoBounds == <<>>

RatLeq(a, b) == a[1] * b[2] <= b[1] * a[2]

\* the list without its element at index i
RemoveAt(s, i) == [j \in 1 .. Len(s) - 1 |-> IF j < i THEN s[j] ELSE s[j + 1]]

\* a list of floats in non-decreasing order
RECURSIVE SortRats(_)
SortRats(s) ==
    IF s = <<>>
    THEN <<>>
    ELSE LET i == CHOOSE i \in 1 .. Len(s) : \A j \in 1 .. Len(s) : RatLeq(s[i], s[j])
         IN  <<s[i]>> \o SortRats(RemoveAt(s, i))

\* mutant of np_percentile: the interpolation step adds the two closest ranks
np_percentile_AddedRanks(a, num, den) ==
    LET sorted == SortRats(a)
        n == Len(a)
        lo == ((n - 1) * num) \div den
        frac == Rat(((n - 1) * num) % den, den)
    IN  IF lo + 1 >= n
        THEN sorted[n]
        ELSE RatAdd(sorted[lo + 1],
                    RatMul(frac, RatAdd(sorted[lo + 2], sorted[lo + 1])))

\* np.percentile(a, q) of a non-empty list, q = 100 * num / den, with numpy's
\* linear interpolation between the two closest ranks
np_percentile(a, num, den) ==
    LET sorted == SortRats(a)
        n == Len(a)
        lo == ((n - 1) * num) \div den
        frac == Rat(((n - 1) * num) % den, den)
    IN  IF lo + 1 >= n
        THEN sorted[n]
        ELSE RatAdd(sorted[lo + 1],
                    RatMul(frac, RatSub(sorted[lo + 2], sorted[lo + 1])))

\* the resamples np.random.choice(data, size=len(data), replace=True) can give
Resamples(d) == [1 .. Len(d) -> {d[i] : i \in 1 .. Len(d)}]

\* the argument lists drawn
DataLists == UNION {SeqsOfLen(MetricVals, n) : n \in 0 .. MaxData}

InitBootstrap ==
    /\ fn = "bootstrap_ci"
    /\ pc = "start"
    /\ NoSegment
    /\ NoPerf
    /\ NoAnalysis
    /\ NoMain
    /\ NoFormat
    /\ NoSummary
    /\ stage_ranges = EmptyDict
    /\ stage_window = 0
    /\ boot_data \in DataLists
    \* np.percentile of an empty list of means differs between numpy
    \* versions, so a call with two or more values draws at least once
    /\ n_bootstrap \in (IF TooFewValues(boot_data) THEN 0 ELSE 1) .. MaxBootstrap
    /\ confidence \in ConfidenceVals
    /\ bootstrap_means = <<>>
    /\ bounds = NoBounds
    /\ previous_bounds = NoBounds
    /\ calls = 1

\* lines 95-96: the early return
BootstrapReturnZero ==
    /\ fn = "bootstrap_ci"
    /\ pc = "start"
    /\ TooFewValues(boot_data)
    /\ bounds' = ZeroBounds
    /\ pc' = "done"
    /\ UNCHANGED <<boot_data, n_bootstrap, confidence, bootstrap_means,
                   previous_bounds, calls, otherVars>>

\* lines 99-101: one iteration of the loop
BootstrapResample ==
    /\ fn = "bootstrap_ci"
    /\ pc \in {"start", "loop"}
    /\ ~ TooFewValues(boot_data)
    /\ Len(bootstrap_means) < n_bootstrap
    /\ \E sample \in Resamples(boot_data) :
          bootstrap_means' = Append(bootstrap_means, NpMean(sample))
    /\ pc' = "loop"
    /\ UNCHANGED <<boot_data, n_bootstrap, confidence, bounds, previous_bounds,
                   calls, otherVars>>

\* lines 103-106: the percentiles of the means, after the loop
BootstrapPercentiles ==
    /\ fn = "bootstrap_ci"
    /\ pc \in {"start", "loop"}
    /\ ~ TooFewValues(boot_data)
    /\ Len(bootstrap_means) = n_bootstrap
    /\ bounds' = <<np_percentile(bootstrap_means, 100 - confidence, 200),
                   np_percentile(bootstrap_means, 100 + confidence, 200)>>
    /\ pc' = "done"
    /\ UNCHANGED <<boot_data, n_bootstrap, confidence, bootstrap_means,
                   previous_bounds, calls, otherVars>>

\* the caller calls bootstrap_ci again with the same arguments
BootstrapCallAgain ==
    /\ fn = "bootstrap_ci"
    /\ pc = "done"
    /\ calls < MaxCalls
    /\ previous_bounds' = bounds
    /\ bounds' = NoBounds
    /\ bootstrap_means' = <<>>
    /\ calls' = calls + 1
    /\ pc' = "start"
    /\ UNCHANGED <<boot_data, n_bootstrap, confidence, otherVars>>

NextBootstrap ==
    \/ BootstrapReturnZero
    \/ BootstrapResample
    \/ BootstrapPercentiles
    \/ BootstrapCallAgain

SpecBootstrap == InitBootstrap /\ [][NextBootstrap]_vars

----------------------------------------------------------------------------
(* format_value.  A value is an exact rational; a formatted value is the
   text of a fixed-point number: its sign, its digits as the integer
   `scaled` (the magnitude times 10^decimals), the number of decimals and the
   suffix.  The drawn values that lie on a rounding tie are binary fractions,
   which a float holds exactly, so the tie is rounded to even as Python's
   format does. *)

RECURSIVE Pow10(_)
Pow10(d) == IF d = 0 THEN 1 ELSE 10 * Pow10(d - 1)

AbsRat(q) == <<Abs(q[1]), q[2]>>

\* f"{q:.<d>f}" followed by the suffix
FixedPoint(q, d, suffix) ==
    [minus |-> q[1] < 0,
     scaled |-> RoundHalfEven(RatMul(AbsRat(q), <<Pow10(d), 1>>)),
     decimals |-> d,
     suffix |-> suffix]

\* mutant of format_value: a float of magnitude 100 takes the integer form
format_value_AtLeast100(v, kind) ==
    IF kind = "percentage"
    THEN FixedPoint(RatMul(v, <<100, 1>>), 1, "%")
    ELSE IF kind = "float"
    THEN (IF Abs(v[1]) >= 100 * v[2] THEN FixedPoint(v, 0, "") ELSE FixedPoint(v, 2, ""))
    ELSE FixedPoint(v, 3, "")

format_value(v, kind) ==
    IF kind = "percentage"
    THEN FixedPoint(RatMul(v, <<100, 1>>), 1, "%")
    ELSE IF kind = "float"
    THEN (IF Abs(v[1]) > 100 * v[2] THEN FixedPoint(v, 0, "") ELSE FixedPoint(v, 2, ""))
    ELSE FixedPoint(v, 3, "")

\* the values drawn: the sixteenths around zero, values around 100 and the
\* examples 0.873, 0.42 and 153.2
FormatValues ==
    {Rat(n, 16) : n \in -MaxSixteenths .. MaxSixteenths}
        \cup {<<873, 1000>>, <<21, 50>>, <<766, 5>>, <<-766, 5>>, <<100, 1>>,
              <<-100, 1>>, <<1601, 16>>, <<201, 2>>, <<203, 2>>, <<-203, 2>>}

\* the format types: those of the metrics and one the function does not know
FormatTypes == {"percentage", "float", "other"}

NoFormatted == [minus |-> FALSE, scaled |-> 0, decimals |-> 0, suffix |-> "none"]

InitFormat ==
    /\ fn = "format_value"
    /\ pc = "start"
    /\ NoSegment
    /\ NoPerf
    /\ NoAnalysis
    /\ NoMain
    /\ NoBootstrap
    /\ NoSummary
    /\ stage_ranges = EmptyDict
    /\ stage_window = 0
    /\ fmt_value \in FormatValues
    /\ format_type \in FormatTypes
    /\ formatted = NoFormatted

Format ==
    /\ fn = "format_value"
    /\ pc = "start"
    /\ formatted' = format_value(fmt_value, format_type)
    /\ pc' = "done"
    /\ UNCHANGED <<fn, segVars, perfVars, stage_ranges, stage_window, analysisVars,
                   mainVars, bootVars, summaryVars, fmt_value, format_type>>

NextFormat == Format

SpecFormat == InitFormat /\ [][NextFormat]_vars

----------------------------------------------------------------------------
(* generate_statistical_summary.py: get_final_performance and analyze_runs *)

\* the metrics dict of analyze_runs: the same five entries in the same order
summary_metrics == metrics

\* the last `window` values of a list at least that long, else the list
SummaryFinalVals(vs, window) ==
    IF vs = <<>> \/ Len(vs) < window THEN vs ELSE PySliceFrom(vs, -window)

get_final_performance(vs, window) ==
    LET final_vals == SummaryFinalVals(vs, window) IN
    IF final_vals = <<>>
    THEN [mean |-> <<0, 1>>, std |-> <<0, 1>>, min |-> 0, max |-> 0]
    ELSE [mean |-> NpMean(final_vals),
          std |-> NpStdSq(final_vals),
          min |-> NpMin(final_vals),
          max |-> NpMax(final_vals)]

\* all_final_values: the final mean of every run, from run i on, whose file
\* exists and has values
RECURSIVE SummaryFinalMeans(_, _, _, _)
SummaryFinalMeans(dirs, key, window, i) ==
    IF i > Len(dirs)
    THEN <<>>
    ELSE (IF dirs[i].metric[key].exists /\ load_csv_data(dirs[i].metric[key])[2] # <<>>
          THEN <<get_final_performance(load_csv_data(dirs[i].metric[key])[2], window).mean>>
          ELSE <<>>)
             \o SummaryFinalMeans(dirs, key, window, i + 1)

\* the bootstrap call of analyze_runs: over the final means of two or more
\* runs, else over the final window of the first run directory's file
SummaryCI(dirs, key, window, all_final_values) ==
    IF Len(all_final_values) > 1
    THEN bootstrap_ci(all_final_values)
    ELSE LET vs == load_csv_data(dirs[1].metric[key])[2] IN
         IF vs # <<>>
         THEN bootstrap_ci(Floats(IF Len(vs) >= window
                                  THEN PySliceFrom(vs, -window) ELSE vs))
         ELSE ZeroCI

analyze_runs(dirs, final_window) ==
    LET all == [m \in 1 .. Len(summary_metrics) |->
                    SummaryFinalMeans(dirs, summary_metrics[m].key, final_window, 1)]
        kept == {m \in 1 .. Len(summary_metrics) : all[m] # <<>>}
        ci == [m \in kept |->
                    SummaryCI(dirs, summary_metrics[m].key, final_window, all[m])]
        entry == [m \in kept |->
                    [mean |-> NpMeanF(all[m]),
                     std |-> IF Len(all[m]) > 1 THEN NpStdSqF(all[m]) ELSE <<0, 1>>,
                     ci_lower |-> [bound |-> "lower", of |-> ci[m]],
                     ci_upper |-> [bound |-> "upper", of |-> ci[m]],
                     format |-> summary_metrics[m].format,
                     n_runs |-> Len(all[m])]]
    IN  [name \in {summary_metrics[m].name : m \in kept} |->
            entry[CHOOSE m \in kept : summary_metrics[m].name = name]]

----------------------------------------------------------------------------
(* Summary specification: the run directories and the final window are
   drawn, then analysed by analyze_runs *)

\* the run directories of the summary script, which reads no stage file
SummaryRunDirList(pick) == RunDirList([i \in 1 .. Len(pick) |-> <<NoFile, pick[i]>>])

InitSummary ==
    /\ fn = "analyze_runs"
    /\ pc = "start"
    /\ NoSegment
    /\ NoPerf
    /\ stage_ranges = EmptyDict
    /\ stage_window = 0
    /\ \E n \in 1 .. MaxRuns :
          \E pick \in [1 .. n -> SuccessFiles] :
              run_dirs = SummaryRunDirList(pick)
    /\ results = EmptyDict
    /\ analysis_path = "none"
    /\ NoMain
    /\ NoBootstrap
    /\ NoFormat
    /\ summary_window \in 0 .. MaxWindow
    /\ summary_results = EmptyDict

AnalyzeRuns ==
    /\ fn = "analyze_runs"
    /\ pc = "start"
    /\ summary_results' = analyze_runs(run_dirs, summary_window)
    /\ pc' = "done"
    /\ UNCHANGED <<fn, segVars, perfVars, stage_ranges, stage_window, analysisVars,
                   mainVars, bootVars, formatVars, summary_window>>

NextSummary == AnalyzeRuns

SpecSummary == InitSummary /\ [][NextSummary]_vars

----------------------------------------------------------------------------
(* The whole development: any of the functions, on any drawn input *)

Init ==
    \/ InitSegment
    \/ InitPerf
    \/ InitAnalysis
    \/ InitMain
    \/ InitBootstrap
    \/ InitFormat
    \/ InitSummary

Next ==
    \/ Segment
    \/ Aggregate
    \/ Analyze
    \/ Main
    \/ BootstrapReturnZero
    \/ BootstrapResample
    \/ BootstrapPercentiles
    \/ BootstrapCallAgain
    \/ Format
    \/ AnalyzeRuns

Spec == Init /\ [][Next]_vars

----------------------------------------------------------------------------
(* Vocabulary of the segmenter claims *)

SigIdx == 1 .. Min(Len(stage_steps), Len(stage_values))

\* the segmenter ran on a non-empty, aligned stage signal
SegmentedSignal ==
    /\ fn = "find_stage_transitions"
    /\ pc = "done"
    /\ stage_steps # <<>>
    /\ Len(stage_steps) = Len(stage_values)

\* the stage id the code gives sample i, and the id rounding would give it
CodeId(i) == PyInt(stage_values[i])
RoundedId(i) == round_to_int(stage_values[i])

InInterval(iv, s) == iv[1] <= s /\ s <= iv[2]

Overlap(iv1, iv2) == \E s \in StepVals : InInterval(iv1, s) /\ InInterval(iv2, s)

PairwiseDisjoint(ranges) ==
    \A a, b \in DOMAIN ranges : a # b => ~Overlap(ranges[a], ranges[b])

StagesHolding(ranges, s) == {k \in DOMAIN ranges : InInterval(ranges[k], s)}

EveryStepInOneStage(ranges) ==
    \A i \in SigIdx : Cardinality(StagesHolding(ranges, stage_steps[i])) = 1

\* indices at which a run of equal ids (under the id function Id) begins
RunStarts(Id(_)) == {i \in SigIdx : i = 1 \/ Id(i) # Id(i - 1)}

\* the first index of the run that holds index j
RunStartOf(Id(_), j) ==
    CHOOSE i \in RunStarts(Id) : i <= j /\ \A m \in RunStarts(Id) : m <= j => m <= i

\* the last index of the run that holds index j
RunEndOf(Id(_), j) ==
    CHOOSE e \in SigIdx : e >= j /\ (\A m \in j .. e : Id(m) = Id(j))
                                 /\ (e = Len(stage_steps) \/ Id(e + 1) # Id(j))

IdsSeen(Id(_)) == {Id(i) : i \in SigIdx}

\* an id is revisited when two different runs carry it
Revisited(Id(_), k) ==
    \E i, j \in RunStarts(Id) : i # j /\ Id(i) = k /\ Id(j) = k

NoRevisit(Id(_)) == \A k \in IdsSeen(Id) : ~Revisited(Id, k)

LastIndexOf(Id(_), k) ==
    CHOOSE j \in SigIdx : Id(j) = k /\ \A m \in SigIdx : Id(m) = k => m <= j

\* the [first step, last step] of the last run that carries id k
LastRunInterval(Id(_), k) ==
    <<stage_steps[RunStartOf(Id, LastIndexOf(Id, k))], stage_steps[LastIndexOf(Id, k)]>>

----------------------------------------------------------------------------
(* Claims about find_stage_transitions *)

\* C1: for every non-empty stage signal with non-decreasing steps (duplicate
\* steps and revisited ids included) the returned intervals are pairwise
\* non-overlapping and every step of the signal lies in exactly one of them.
C1_IntervalsPartitionSteps ==
    SegmentedSignal =>
        PairwiseDisjoint(stage_ranges) /\ EveryStepInOneStage(stage_ranges)

\* C2: for a signal of k runs of equal ids with no id revisited, exactly k
\* intervals are returned, each from the first to the last step of its run,
\* and they cover the steps of the input with no gaps and no overlaps.
C2_OneIntervalPerRun ==
    (SegmentedSignal /\ NoRevisit(CodeId)) =>
        /\ Cardinality(DOMAIN stage_ranges) = Cardinality(RunStarts(CodeId))
        /\ \A i \in RunStarts(CodeId) :
              /\ CodeId(i) \in DOMAIN stage_ranges
              /\ stage_ranges[CodeId(i)] =
                    <<stage_steps[i], stage_steps[RunEndOf(CodeId, i)]>>
        /\ PairwiseDisjoint(stage_ranges)
        /\ EveryStepInOneStage(stage_ranges)

\* C3: a non-empty stage signal whose stage values are all equal yields
\* exactly one interval, keyed by that stage id, from the first step to the
\* last step of the input.
C3_ConstantSignalOneInterval ==
    (SegmentedSignal /\ \A i \in SigIdx : stage_values[i] = stage_values[1]) =>
        /\ DOMAIN stage_ranges = {CodeId(1)}
        /\ stage_ranges[CodeId(1)] = <<stage_steps[1], stage_steps[Len(stage_steps)]>>

C3_Witness ==
    /\ SegmentedSignal
    /\ Len(stage_steps) >= 3
    /\ \A i \in SigIdx : stage_values[i] = 16
    /\ stage_steps[1] < stage_steps[Len(stage_steps)]
    /\ stage_ranges[1] = <<stage_steps[1], stage_steps[Len(stage_steps)]>>

\* C4: the stage id of each sample is its value rounded to the nearest
\* integer and a transition is detected exactly where the rounded value
\* changes: the result holds, for every rounded id, the interval of its last
\* run (0.9 belongs to stage 1, 1.6 to stage 2).
C4_IdsAreRounded ==
    SegmentedSignal =>
        /\ DOMAIN stage_ranges = IdsSeen(RoundedId)
        /\ \A k \in IdsSeen(RoundedId) : stage_ranges[k] = LastRunInterval(RoundedId, k)

\* C5: an id carried by two or more separate runs of the signal is mapped
\* to the interval of its last run only (last write wins).
C5_LastWriteWins ==
    SegmentedSignal =>
        \A k \in IdsSeen(CodeId) :
            Revisited(CodeId, k) =>
                /\ k \in DOMAIN stage_ranges
                /\ stage_ranges[k] = LastRunInterval(CodeId, k)

C5_Witness ==
    /\ SegmentedSignal
    /\ stage_steps = <<0, 1, 2, 3>>
    /\ stage_values = <<0, 10, 9, 0>>
    /\ stage_ranges[0] = <<2, 3>>
    /\ stage_ranges[1] = <<1, 1>>

----------------------------------------------------------------------------
(* Claims about get_stage_performance *)

Aggregated == fn = "get_stage_performance" /\ pc = "done"

\* the values of the samples of the series that lie in stage k, in series order
SamplesIn(k) ==
    LET idx == {i \in 1 .. Len(steps) : InInterval(stage_ranges[k], steps[i])}
        nth[n \in 0 .. Cardinality(idx)] ==
            IF n = 0 THEN 0
            ELSE CHOOSE i \in idx : i > nth[n - 1] /\ \A j \in idx : j > nth[n - 1] => i <= j
    IN  [n \in 1 .. Cardinality(idx) |-> values[nth[n]]]

\* the last n elements of a sequence of at least n elements
LastN(seq, n) == [i \in 1 .. n |-> seq[Len(seq) - n + i]]

\* the statistics of entry e are those of the non-empty sample list used
StatsOver(e, used) ==
    /\ used # <<>>
    /\ e.mean = NpMean(used)
    /\ e.std = NpStdSq(used)
    /\ e.min = NpMin(used)
    /\ e.max = NpMax(used)

\* C7: the returned mapping holds a stage id exactly when at least one
\* sample of the series has start <= step <= end for that stage's interval.
C7_EntryIffSamples ==
    Aggregated =>
        /\ DOMAIN stage_performance \subseteq DOMAIN stage_ranges
        /\ \A k \in DOMAIN stage_ranges :
              k \in DOMAIN stage_performance <=>
                \E i \in 1 .. Len(steps) : InInterval(stage_ranges[k], steps[i])

C7_Witness ==
    /\ Aggregated
    /\ DOMAIN stage_ranges = {0, 1}
    /\ steps # <<>>
    /\ 0 \in DOMAIN stage_performance
    /\ 1 \notin DOMAIN stage_performance

\* C8: for a stage with more than `window` in-stage samples the statistics
\* are those of exactly the last `window` in-stage samples; for a stage with
\* at most `window` in-stage samples they are those of all of them.
C8_TrailingWindowStats ==
    Aggregated =>
        \A k \in DOMAIN stage_performance :
            StatsOver(stage_performance[k],
                      IF Len(SamplesIn(k)) > stage_window
                      THEN LastN(SamplesIn(k), stage_window)
                      ELSE SamplesIn(k))

\* C9: for every entry and every window (0 included) the statistics come
\* from at most `window` samples and the reported sample count is the size of
\* that trailing window, min(window, number of in-stage samples).
C9_CountIsWindowSize ==
    Aggregated =>
        \A k \in DOMAIN stage_performance :
            /\ stage_performance[k].n_steps = Min(stage_window, Len(SamplesIn(k)))
            /\ \E n \in 1 .. stage_window :
                  /\ n <= Len(SamplesIn(k))
                  /\ StatsOver(stage_performance[k], LastN(SamplesIn(k), n))

----------------------------------------------------------------------------
(* Claims about analyze_curriculum_aware *)

Analysed == fn = "analyze_curriculum_aware" /\ pc = "done"

\* run i supplies a stage signal: its stage file exists and has rows
HasStageSignal(i) ==
    /\ run_dirs[i].stage.exists
    /\ run_dirs[i].stage.steps # <<>>
    /\ run_dirs[i].stage.values # <<>>

\* C6: find_stage_transitions returns the empty mapping when the stage steps
\* or the stage values are empty, and analyze_curriculum_aware never takes an
\* empty stage series for a stage signal: it segments only a run that has
\* rows, and falls back when no run has any.
C6_EmptySignalIsNoSignal ==
    /\ (fn = "find_stage_transitions" /\ pc = "done"
            /\ (stage_steps = <<>> \/ stage_values = <<>>))
          => stage_ranges = EmptyDict
    /\ Analysed =>
          /\ analysis_path = "stage_aware" <=>
                \E i \in 1 .. Len(run_dirs) : HasStageSignal(i)
          /\ analysis_path = "stage_aware" => stage_ranges # EmptyDict
          /\ analysis_path = "fallback" => stage_ranges = EmptyDict

C6_Witness ==
    /\ Analysed
    /\ Len(run_dirs) = 2
    /\ run_dirs[1].stage = CsvFile(<<>>, <<>>)
    /\ run_dirs[2].stage = CsvFile(<<0, 2>>, <<0, 10>>)
    /\ analysis_path = "stage_aware"
    /\ stage_ranges = (0 :> <<0, 0>> @@ 1 :> <<2, 2>>)

MetricNamed(name) == CHOOSE m \in 1 .. Len(metrics) : metrics[m].name = name

\* the dict get_stage_performance gives run i for a metric key
RunStagePerf(i, key) ==
    IF run_dirs[i].metric[key].exists /\ run_dirs[i].metric[key].steps # <<>>
    THEN get_stage_performance(run_dirs[i].metric[key].steps,
                               run_dirs[i].metric[key].values,
                               stage_ranges, stage_window)
    ELSE EmptyDict

\* the per-run windowed means contributed to stage k of a metric, in run
\* order, over the first i runs
RECURSIVE PerRunMeans(_, _, _)
PerRunMeans(key, k, i) ==
    IF i = 0
    THEN <<>>
    ELSE PerRunMeans(key, k, i - 1)
            \o (IF k \in DOMAIN RunStagePerf(i, key)
                THEN <<RunStagePerf(i, key)[k].mean>>
                ELSE <<>>)

\* the arithmetic mean of a list of rationals
ArithMean(s) == RatDivInt(SumRats(s), Len(s))

\* the population variance: the mean of the squared deviations from the mean
PopVariance(s) ==
    LET dev(i) == RatSub(s[i], ArithMean(s)) IN
    RatDivInt(SumRats([i \in 1 .. Len(s) |-> RatMul(dev(i), dev(i))]), Len(s))

\* C10: for every (metric, stage) to which two or more runs contributed a
\* per-run windowed mean, the combined mean is the arithmetic mean of those
\* means, the combined std their population standard deviation (carried as
\* the variance), and the CI is bootstrapped over those means.
C10_MultiRunCombination ==
    (Analysed /\ analysis_path = "stage_aware") =>
        \A name \in DOMAIN results :
            \A k \in DOMAIN stage_ranges :
                LET means == PerRunMeans(metrics[MetricNamed(name)].key, k, Len(run_dirs))
                IN  Len(means) >= 2 =>
                        /\ k \in DOMAIN results[name]
                        /\ results[name][k].mean = ArithMean(means)
                        /\ results[name][k].std = PopVariance(means)
                        /\ results[name][k].ci = [drawn |-> TRUE, data |-> means]

C10_Witness ==
    /\ Analysed
    /\ analysis_path = "stage_aware"
    /\ stage_window = 1
    /\ stage_ranges = (1 :> <<0, 2>>)
    /\ PerRunMeans("Drone__Success", 1, Len(run_dirs)) = << <<1, 1>>, <<4, 1>> >>
    /\ results["Success Rate"][1].mean = <<5, 2>>
    /\ results["Success Rate"][1].std = <<9, 4>>
    /\ results["Success Rate"][1].n_runs = 2


\* the values of the samples of run i's series for a metric key that lie in
\* stage k, in series order
RunSamplesIn(i, key, k) ==
    LET st == run_dirs[i].metric[key].steps
        vs == run_dirs[i].metric[key].values
        idx == {j \in 1 .. Min(Len(st), Len(vs)) : InInterval(stage_ranges[k], st[j])}
        nth[n \in 0 .. Cardinality(idx)] ==
            IF n = 0 THEN 0
            ELSE CHOOSE j \in idx : j > nth[n - 1] /\ \A h \in idx : h > nth[n - 1] => j <= h
    IN  [n \in 1 .. Cardinality(idx) |-> vs[nth[n]]]

\* the runs that contributed a per-run mean to stage k of a metric
Contributors(key, k) ==
    {i \in 1 .. Len(run_dirs) : k \in DOMAIN RunStagePerf(i, key)}

\* the trailing window of a sample list: its last `window` samples, or all of
\* them when there are no more than `window`
TrailingWindow(samples, window) ==
    IF Len(samples) > window THEN LastN(samples, window) ELSE samples

\* C11: for every (metric, stage) to which exactly one run contributed,
\* whichever position that run has in run_dirs, the combined std is 0.0 and
\* the CI is bootstrapped over the raw in-stage trailing-window samples of
\* that contributing run.
C11_SingleRunCIFromContributor ==
    (Analysed /\ analysis_path = "stage_aware") =>
        \A name \in DOMAIN results :
            \A k \in DOMAIN stage_ranges :
                LET key == metrics[MetricNamed(name)].key
                    who == Contributors(key, k)
                IN  Cardinality(who) = 1 =>
                        LET i == CHOOSE c \in who : TRUE IN
                        /\ k \in DOMAIN results[name]
                        /\ results[name][k].std = <<0, 1>>
                        /\ results[name][k].ci =
                              bootstrap_ci(Floats(TrailingWindow(RunSamplesIn(i, key, k),
                                                                 stage_window)))


----------------------------------------------------------------------------
(* Claims about main and generate_curriculum_summary *)

MainDone == fn = "main" /\ pc = "done"

\* generate_curriculum_summary was called
SummaryCalled == report.outcome \in {"written", "raised"}

\* C12: when no run supplies a stage signal, the report main produces is
\* rendered in the fallback mode: it carries the final-performance-only
\* label, is not tagged curriculum-aware and holds no per-stage table.
C12_FallbackReportIsFinalOnly ==
    (MainDone /\ SummaryCalled
              /\ ~ \E i \in 1 .. Len(run_dirs) : HasStageSignal(i)) =>
        /\ ~ report.is_curriculum_aware
        /\ report.label = "final_only"
        /\ report.stage_tables = <<>>

\* C13: whenever a stage signal was found and the results are stage-keyed,
\* the report is rendered in curriculum-aware mode, whatever the number of
\* detected stages; the mode tag of the report equals the mode of the analysis.
C13_ModeTagMatchesAnalysis ==
    (MainDone /\ SummaryCalled) =>
        /\ analysis_path = "stage_aware" =>
              report.is_curriculum_aware /\ report.label = "per_stage"
        /\ report.is_curriculum_aware <=> analysis_path = "stage_aware"

\* C14: with at least one valid run directory, whichever stage and metric
\* series are present or absent, main runs to completion and writes a report.
C14_PipelineNeverAborts ==
    (MainDone /\ \E i \in 1 .. Len(run_dirs) : HasCsvFiles(run_dirs[i])) =>
        report.outcome = "written"


----------------------------------------------------------------------------
(* Claims about the fallback and the shape of the results *)

\* C15: in the no-stage fallback the aggregates are computed over a trailing
\* window that does not depend on stage_window: the same run directories
\* give the same results under every value of stage_window.
C15_FallbackIndependentOfStageWindow ==
    (Analysed /\ analysis_path = "fallback") =>
        \A w \in 0 .. MaxWindow :
            analyze_curriculum_aware(run_dirs, w).results = results


\* no run contributed a sample of the metric: in stage-aware mode no run has
\* a sample inside any stage interval, in fallback mode no run has a sample
NoContribution(key) ==
    IF analysis_path = "stage_aware"
    THEN \A k \in DOMAIN stage_ranges : Contributors(key, k) = {}
    ELSE \A i \in 1 .. Len(run_dirs) : load_csv_data(run_dirs[i].metric[key])[2] = <<>>

\* C16: a metric to which no run contributed any sample is absent from the
\* results of analyze_curriculum_aware, in stage-aware and in fallback mode.
C16_NoEntryWithoutSamples ==
    Analysed =>
        \A m \in 1 .. Len(metrics) :
            NoContribution(metrics[m].key) => metrics[m].name \notin DOMAIN results


\* the fields of a single aggregate and those of a combined stage result
AggregateFields == {"mean", "std", "ci", "format", "n_runs"}
CombinedFields == AggregateFields \cup {"step_range"}

\* C17: the results of analyze_curriculum_aware are homogeneous: after the
\* stage-aware return every metric entry is a mapping from detected stage
\* ids to combined results, after the fallback return every metric entry is
\* a single aggregate without stage keys.
C17_ResultsHomogeneous ==
    Analysed =>
        /\ analysis_path \in {"stage_aware", "fallback"}
        /\ analysis_path = "stage_aware" =>
              \A name \in DOMAIN results :
                  /\ DOMAIN results[name] \subseteq DOMAIN stage_ranges
                  /\ \A k \in DOMAIN results[name] :
                        /\ DOMAIN results[name][k] = CombinedFields
                        /\ results[name][k].step_range = stage_ranges[k]
        /\ analysis_path = "fallback" =>
              \A name \in DOMAIN results : DOMAIN results[name] = AggregateFields

C17_Witness ==
    /\ Analysed
    /\ analysis_path = "stage_aware"
    /\ Len(run_dirs) = 2
    /\ DOMAIN results["Success Rate"] = {0, 1}
    /\ DOMAIN results["Cumulative Reward"] = {0}
    /\ results["Collision Rate"] = EmptyDict


----------------------------------------------------------------------------
(* Claims about bootstrap_ci *)

BootstrapReturned == fn = "bootstrap_ci" /\ pc = "done"

\* C18: for every data list with fewer than 2 values, whatever n_bootstrap
\* and confidence are, bootstrap_ci draws no resample, never enters the loop
\* and returns exactly (0.0, 0.0).
C18_FewValuesGiveZeroBounds ==
    (fn = "bootstrap_ci" /\ Len(boot_data) < 2) =>
        /\ bootstrap_means = <<>>
        /\ pc \in {"start", "done"}
        /\ pc = "done" => bounds = << <<0, 1>>, <<0, 1>> >>

C18_Witness ==
    /\ BootstrapReturned
    /\ Len(boot_data) = 1
    /\ n_bootstrap = MaxBootstrap
    /\ confidence = 95
    /\ bounds = << <<0, 1>>, <<0, 1>> >>

\* C19: two calls of bootstrap_ci with identical data, n_bootstrap and
\* confidence, the whole of what the function accepts, return identical
\* (lower, upper) bounds.
C19_RepeatedCallSameBounds ==
    (BootstrapReturned /\ calls >= 2) => bounds = previous_bounds


----------------------------------------------------------------------------
(* Claim about the final summary *)

\* the row of a table for a metric
RowsFor(rows, name) == {j \in 1 .. Len(rows) : rows[j].metric = name}

\* the greatest stage id of a non-empty stage mapping
MaxStageId(entry) == CHOOSE k \in DOMAIN entry : \A j \in DOMAIN entry : k >= j

\* C20: for every metric with at least one stage result, the final-summary
\* row of the text table and the row of the LaTeX table show the combined
\* result of the highest stage id of that metric and print that stage id.
C20_FinalRowIsHighestStage ==
    (MainDone /\ analysis_path = "stage_aware" /\ report.outcome = "written") =>
        \A name \in DOMAIN results :
            results[name] # EmptyDict =>
                LET top == MaxStageId(results[name]) IN
                /\ RowsFor(report.final_rows, name) # {}
                /\ RowsFor(report.latex_rows, name) # {}
                /\ \A j \in RowsFor(report.final_rows, name) :
                      /\ report.final_rows[j].data = results[name][top]
                      /\ report.final_rows[j].stage = top
                /\ \A j \in RowsFor(report.latex_rows, name) :
                      /\ report.latex_rows[j].data = results[name][top]
                      /\ report.latex_rows[j].stage = top


----------------------------------------------------------------------------
(* Claim about format_value *)

Formatted == fn = "format_value" /\ pc = "done"

\* the text f shows the rational q rounded to its number of decimals: the
\* sign is that of q and the digits are within half a unit of the last place
ShowsRounded(f, q) ==
    /\ f.minus = (q[1] < 0)
    /\ Abs(2 * f.scaled * q[2] - 2 * Abs(q[1]) * Pow10(f.decimals)) <= q[2]

\* C21: format_value renders 'percentage' as value*100 with exactly 1
\* decimal and '%'; 'float' as the integer-rounded value without decimals
\* when |value| > 100 and with exactly 2 decimals otherwise, |value| = 100
\* included; 0.873 gives "87.3%", 153.2 gives "153" and 0.42 gives "0.42".
C21_FormatValue ==
    Formatted =>
        /\ format_type = "percentage" =>
              /\ formatted.decimals = 1
              /\ formatted.suffix = "%"
              /\ ShowsRounded(formatted, RatMul(fmt_value, <<100, 1>>))
        /\ format_type = "float" =>
              /\ formatted.suffix = ""
              /\ formatted.decimals = (IF Abs(fmt_value[1]) > 100 * fmt_value[2]
                                       THEN 0 ELSE 2)
              /\ ShowsRounded(formatted, fmt_value)
        /\ (format_type = "percentage" /\ fmt_value = <<873, 1000>>) =>
              formatted = [minus |-> FALSE, scaled |-> 873, decimals |-> 1,
                           suffix |-> "%"]
        /\ (format_type = "float" /\ fmt_value = <<766, 5>>) =>
              formatted = [minus |-> FALSE, scaled |-> 153, decimals |-> 0,
                           suffix |-> ""]
        /\ (format_type = "float" /\ fmt_value = <<21, 50>>) =>
              formatted = [minus |-> FALSE, scaled |-> 42, decimals |-> 2,
                           suffix |-> ""]

C21_Witness ==
    /\ Formatted
    /\ format_type = "float"
    /\ fmt_value = <<100, 1>>
    /\ formatted = [minus |-> FALSE, scaled |-> 10000, decimals |-> 2, suffix |-> ""]


----------------------------------------------------------------------------
(* Claims about the stage intervals of the analysis *)

\* the first run, in input order, that supplies a stage signal
FirstWithSignal ==
    CHOOSE i \in 1 .. Len(run_dirs) :
        HasStageSignal(i) /\ \A j \in 1 .. i - 1 : ~ HasStageSignal(j)

\* the run directories with the stage file of run j replaced
WithStageFile(dirs, j, file) == [dirs EXCEPT ![j].stage = file]

\* C22: the stage intervals applied to every run and metric are those
\* segmented from the first run, in input order, that has a non-empty stage
\* series: earlier runs without one are skipped, and whatever stage file a
\* later run has, it does not change the intervals.
C22_FirstRunWithSignalDecides ==
    (Analysed /\ \E i \in 1 .. Len(run_dirs) : HasStageSignal(i)) =>
        /\ analysis_path = "stage_aware"
        /\ stage_ranges = find_stage_transitions(run_dirs[FirstWithSignal].stage.steps,
                                                 run_dirs[FirstWithSignal].stage.values)
        /\ \A name \in DOMAIN results :
              \A k \in DOMAIN results[name] :
                  results[name][k].step_range = stage_ranges[k]
        /\ \A j \in FirstWithSignal + 1 .. Len(run_dirs) :
              \A file \in StageFiles :
                  AllStageRanges(WithStageFile(run_dirs, j, file), 1) = <<stage_ranges>>

C22_Witness ==
    /\ Analysed
    /\ Len(run_dirs) = 2
    /\ run_dirs[1].stage = CsvFile(<<0, 1, 2>>, <<10, 10, 10>>)
    /\ run_dirs[2].stage = CsvFile(<<0, 2>>, <<0, 10>>)
    /\ stage_ranges = (1 :> <<0, 2>>)
    /\ results["Success Rate"] # EmptyDict


\* C23: for every non-empty stage signal whose steps do not decrease
\* (repeated steps allowed), every interval returned by
\* find_stage_transitions has start_step <= end_step.
C23_StartNotAfterEnd ==
    (SegmentedSignal /\ NonDecreasing(stage_steps)) =>
        /\ stage_ranges # EmptyDict
        /\ \A k \in DOMAIN stage_ranges : stage_ranges[k][1] <= stage_ranges[k][2]

C23_Witness ==
    /\ SegmentedSignal
    /\ stage_steps = <<0, 1, 1, 3>>
    /\ stage_values = <<0, 0, 10, 20>>
    /\ stage_ranges = (0 :> <<0, 1>> @@ 1 :> <<1, 1>> @@ 2 :> <<3, 3>>)


\* the intervals find_stage_transitions gives for the selected stage signal
SelectedIntervals ==
    find_stage_transitions(run_dirs[FirstWithSignal].stage.steps,
                           run_dirs[FirstWithSignal].stage.values)

\* C24: every stage id that keys a metric's results is a key of the
\* intervals segmented from the selected stage signal and its step_range is
\* that interval; the results of the fallback hold no stage id.
C24_StageIdsComeFromSignal ==
    Analysed =>
        /\ analysis_path = "stage_aware" =>
              \A name \in DOMAIN results :
                  \A k \in DOMAIN results[name] :
                      /\ k \in DOMAIN SelectedIntervals
                      /\ results[name][k].step_range = SelectedIntervals[k]
        /\ analysis_path = "fallback" =>
              /\ stage_ranges = EmptyDict
              /\ \A name \in DOMAIN results :
                    "step_range" \notin DOMAIN results[name]

C24_Witness ==
    /\ Analysed
    /\ run_dirs[1].stage = CsvFile(<<0, 1, 2>>, <<0, 10, 9>>)
    /\ DOMAIN results["Success Rate"] = {0, 1}
    /\ results["Success Rate"][0].step_range = <<2, 2>>
    /\ results["Success Rate"][1].step_range = <<1, 1>>


----------------------------------------------------------------------------
(* Claim about the bounds of bootstrap_ci *)

----------------------------------------------------------------------------
(* Claims about the samples get_stage_performance counts *)

\* the stage ids whose in-stage values take sample j of run i's series
StagesCounting(i, key, j) ==
    {k \in DOMAIN stage_ranges :
        InStageValues(<<run_dirs[i].metric[key].steps[j]>>,
                      <<run_dirs[i].metric[key].values[j]>>,
                      stage_ranges[k], 1) # <<>>}

\* the indices of the samples of run i's series for a metric key
SampleIndices(i, key) ==
    IF run_dirs[i].metric[key].exists
    THEN 1 .. Min(Len(run_dirs[i].metric[key].steps),
                  Len(run_dirs[i].metric[key].values))
    ELSE {}

\* C26: every sample of a metric series is counted in at most one stage: no
\* sample is among the in-stage values of two stage ids, also when its step
\* is a stage boundary and the stage signal repeats a step at a transition.
C26_SampleInAtMostOneStage ==
    (Analysed /\ analysis_path = "stage_aware") =>
        \A i \in 1 .. Len(run_dirs) :
            \A key \in MetricKeys :
                \A j \in SampleIndices(i, key) :
                    Cardinality(StagesCounting(i, key, j)) <= 1

\* C27: every sample of a metric series whose step lies between the first
\* and the last step of the selected stage signal is counted in some stage,
\* also when it is sampled between two consecutive stage-signal steps across
\* a transition and when a stage id is revisited.
C27_SampleInSomeStage ==
    (Analysed /\ analysis_path = "stage_aware") =>
        LET signal == run_dirs[FirstWithSignal].stage.steps IN
        \A i \in 1 .. Len(run_dirs) :
            \A key \in MetricKeys :
                \A j \in SampleIndices(i, key) :
                    (/\ signal[1] <= run_dirs[i].metric[key].steps[j]
                     /\ run_dirs[i].metric[key].steps[j] <= signal[Len(signal)])
                        => StagesCounting(i, key, j) # {}


----------------------------------------------------------------------------
(* Claims about analyze_runs and the run counts *)

Summarised == fn = "analyze_runs" /\ pc = "done"

\* the runs whose file for a metric key exists and has values
RunsWithSeries(key) ==
    {i \in 1 .. Len(run_dirs) :
        run_dirs[i].metric[key].exists /\ run_dirs[i].metric[key].values # <<>>}

\* the runs with at least one sample of a metric in stage k
RunsWithSamplesIn(key, k) ==
    {i \in 1 .. Len(run_dirs) :
        run_dirs[i].metric[key].exists /\ RunSamplesIn(i, key, k) # <<>>}

\* C28: n_runs is the number of runs that contributed data to the entry: per
\* (metric, stage) in the stage-aware analysis, per metric in the fallback
\* and in analyze_runs, also when some runs lack the series.
C28_NRunsCountsContributors ==
    /\ (Analysed /\ analysis_path = "stage_aware") =>
          \A name \in DOMAIN results :
              \A k \in DOMAIN results[name] :
                  results[name][k].n_runs =
                      Cardinality(RunsWithSamplesIn(metrics[MetricNamed(name)].key, k))
    /\ (Analysed /\ analysis_path = "fallback") =>
          \A name \in DOMAIN results :
              results[name].n_runs =
                  Cardinality(RunsWithSeries(metrics[MetricNamed(name)].key))
    /\ Summarised =>
          \A name \in DOMAIN summary_results :
              summary_results[name].n_runs =
                  Cardinality(RunsWithSeries(metrics[MetricNamed(name)].key))


\* what analyze_final_performance_only returns for the same run directories
\* and the same window
FinalOnlyResults == analyze_final_performance_only(run_dirs, summary_window, metrics)

\* C30: for the same runs, series and window, analyze_final_performance_only
\* and analyze_runs give every metric the same mean, std and n_runs, for one
\* run and for several runs of unequal length.
C30_FinalOnlyAgreesWithAnalyzeRuns ==
    Summarised =>
        /\ DOMAIN FinalOnlyResults = DOMAIN summary_results
        /\ \A name \in DOMAIN summary_results :
              /\ FinalOnlyResults[name].mean = summary_results[name].mean
              /\ FinalOnlyResults[name].std = summary_results[name].std
              /\ FinalOnlyResults[name].n_runs = summary_results[name].n_runs


----------------------------------------------------------------------------
(* Claim about the order of the run list *)

\* the permutations of the indices of a list of n elements
RunOrders(n) ==
    {p \in [1 .. n -> 1 .. n] : \A i, j \in 1 .. n : p[i] = p[j] => i = j}

\* the run list in the order given by permutation p
Permuted(dirs, p) == [i \in 1 .. Len(dirs) |-> dirs[p[i]]]

\* every run carries the stage signal of the first run
SameStageSignal ==
    /\ HasStageSignal(1)
    /\ \A i \in 1 .. Len(run_dirs) : run_dirs[i].stage = run_dirs[1].stage

====
